---- MODULE Spec2Model ----
(***************************************************************************)
(* Model of the Home Pilates booking backend (src/main.py).                *)
(*                                                                         *)
(* The store is the `bookings` table of the default SQLite database.       *)
(* Time is counted in minutes of JST wall-clock time; minute 0 is 00:00 on *)
(* the first day of month FirstMonth of year BaseYear.  The calendar is    *)
(* scaled down: a day has DayLen minutes and a month DaysPerMonth days.    *)
(***************************************************************************)
EXTENDS Integers, FiniteSets, Sequences, TLC

\* ---------------------------------------------------------------- bounds
\* largest row id the table may hold, and with it the number of rows
MaxId == 2
\* last value of the clock
MaxNow == 1

\* ------------------------------------------------------ program constants
FixedFee == 1000
MonthsPerYear == 12
SecondsPerMinute == 60

\* -------------------------------------------------------- scaled calendar
DayLen == 1
DaysPerMonth == 1
BaseYear == 2025
FirstMonth == 12

\* ---------------------------------------------------------- request inputs
Days == 0..1
TimesOfDay == 0..(DayLen - 1)
MinutesInputs == 0..1

Names == {"ann"}
MemoInputs == {"note"}
Routes == {"form", "api"}
EnvNames == {"LINE_TOKEN", "SMTP_HOST", "NOTIFY_TO"}
Outcomes == {"ok", "fail"}
Actions == {"book", "done", "cancel", "bogus"}
Workers == {1, 2}

VARIABLES bookings, now, resp, wpc, wreq, wres, env, tasks, outbox

vars == <<bookings, now, resp, wpc, wreq, wres, env, tasks, outbox>>

\* the notification side: the environment variables that are set, the
\* notify tasks waiting on the event loop, and the messages delivered
nvars == <<env, tasks, outbox>>

\* ------------------------------------------------------------ data model
NULL == <<>>

Some(v) == <<v>>

Aware(w) == [wall |-> w, aware |-> TRUE]

Naive(w) == [wall |-> w, aware |-> FALSE]

\* A row of the bookings table; DateTime columns hold wall-clock values,
\* SQLite keeps no zone.
Booking(id, name, s, e, minutes, memo, created) ==
  [id |-> id, name |-> name, start_at |-> s.wall, end_at |-> e.wall,
   minutes |-> minutes, status |-> "Booked", fee_jpy |-> NULL,
   memo |-> memo, created_at |-> created]

Max(S) == CHOOSE x \in S : \A y \in S : y <= x

\* INTEGER PRIMARY KEY without the AUTOINCREMENT keyword: the new rowid is
\* one more than the largest rowid currently in the table.
NextId(rows) == IF rows = {} THEN 1 ELSE Max({b.id : b \in rows}) + 1

Get(rows, bid) == {b \in rows : b.id = bid}

\* ------------------------------------------------------------------ util
dt_merge(d, t) == Aware(d * DayLen + t)

_to_aware_jst(dt) == IF dt.aware THEN dt ELSE [dt EXCEPT !.aware = TRUE]

timedelta_add(dt, minutes) == [dt EXCEPT !.wall = @ + minutes]

\* variant: closed intervals, touching end points count as an overlap
overlapsClosed(s1, e1, s2, e2) ==
  ~(_to_aware_jst(e1).wall < _to_aware_jst(s2).wall
    \/ _to_aware_jst(e2).wall < _to_aware_jst(s1).wall)

overlaps(s1, e1, s2, e2) ==
  LET a1 == _to_aware_jst(s1)
      b1 == _to_aware_jst(e1)
      a2 == _to_aware_jst(s2)
      b2 == _to_aware_jst(e2)
  IN  ~(b1.wall <= a2.wall \/ b2.wall <= a1.wall)

\* variant: the current minute is rejected too
InPastOrNow(s, n) == s.wall <= n

\* `s < datetime.now(JST)`
InPast(s, n) == s.wall < n

\* `db.query(Booking).filter(Booking.status != "Cancel").all()`
QueryActive(rows) == {b \in rows : b.status # "Cancel"}

\* the scan loop over `exists`
HasConflict(exists, s, e) ==
  \E b \in exists : overlaps(Naive(b.start_at), Naive(b.end_at), s, e)

\* `payload.memo or ""`
MemoOr(m) == IF m = "None" \/ m = "" THEN "" ELSE m

\* ---------------------------------------------------------------- notify
\* one `try: ... except Exception: pass` block: the message is sent when
\* the channel is configured and the transport works, and a failure of the
\* transport is swallowed
TrySend(configured, outcome) ==
  [sent |-> configured /\ outcome = "ok", raised |-> FALSE]

\* variant: a block without the except clause lets the failure out
SendUncaught(configured, outcome) ==
  [sent |-> configured /\ outcome = "ok",
   raised |-> configured /\ outcome = "fail"]

LineOn(cfg) == "LINE_TOKEN" \in cfg

MailOn(cfg) == "SMTP_HOST" \in cfg /\ "NOTIFY_TO" \in cfg

\* the transport is called, and has an outcome, only behind its `if`
Attempt(configured) == IF configured THEN Outcomes ELSE {"skipped"}

\* variant: neither block catches, and a failure on LINE ends the call
\* before the mail block
notifyUncaught(cfg, lineOut, mailOut) ==
  LET l == SendUncaught(LineOn(cfg), lineOut)
      m == IF l.raised THEN [sent |-> FALSE, raised |-> FALSE]
           ELSE SendUncaught(MailOn(cfg), mailOut)
  IN  [sent |-> {ch \in {"line"} : l.sent} \cup {ch \in {"mail"} : m.sent},
       raised |-> l.raised \/ m.raised]

\* `notify(subject, message)`: the LINE block, then the mail block; the
\* result is the set of channels that got the message and whether an
\* exception reached the caller
notify(cfg, lineOut, mailOut) ==
  LET l == TrySend(LineOn(cfg), lineOut)
      m == IF l.raised THEN [sent |-> FALSE, raised |-> FALSE]
           ELSE TrySend(MailOn(cfg), mailOut)
  IN  [sent |-> {ch \in {"line"} : l.sent} \cup {ch \in {"mail"} : m.sent},
       raised |-> l.raised \/ m.raised]

\* messages about booking id on the given channels
Msgs(id, chans) == {<<id, ch>> : ch \in chans}

\* ------------------------------------------------------------- responses
\* The answer to the last request: the operation and route, the status code
\* and error the client receives, the id of the row that was created,
\* changed or deleted, and for an applied status action the action and the
\* row as it was before.  An error answer and a redirect carry no more
\* than their code.
NoResp ==
  [op |-> "none", route |-> "none", code |-> 0, error |-> "none", id |-> 0,
   action |-> "none", before |-> {}, out |-> <<>>]

Resp(op, route, code, error, id, action, before, out) ==
  [op |-> op, route |-> route, code |-> code, error |-> error, id |-> id,
   action |-> action, before |-> before, out |-> out]

Idle == [w \in Workers |-> "idle"]

NoReq == [route |-> "none", name |-> "", s |-> 0, minutes |-> 0, memo |-> ""]

\* ------------------------------------------------------------------ init
Init ==
  /\ bookings = {}
  /\ now = 0
  /\ resp = NoResp
  /\ wpc = Idle
  /\ wreq = [w \in Workers |-> NoReq]
  /\ wres = [w \in Workers |-> "none"]
  /\ env = {}
  /\ tasks = {}
  /\ outbox = {}

\* the clock advances
Tick ==
  /\ now < MaxNow
  /\ now' = now + 1
  /\ UNCHANGED <<bookings, resp, wpc, wreq, wres, nvars>>

\* --------------------------------------------------------------- create
CanInsert(rows) == NextId(rows) <= MaxId

\* POST /new
create_booking(name, d, t, minutes, memo) ==
  LET s == dt_merge(d, t)
      e == timedelta_add(s, minutes)
      exists == QueryActive(bookings)
      bk == Booking(NextId(bookings), name, s, e, minutes, memo, now)
  IN  /\ IF InPast(s, now)
         THEN /\ resp' = Resp("create", "form", 400, "past", 0, "none", {}, <<>>)
              /\ UNCHANGED bookings
         ELSE IF HasConflict(exists, s, e)
         THEN /\ resp' = Resp("create", "form", 200, "conflict", 0, "none", {}, <<>>)
              /\ UNCHANGED bookings
         ELSE /\ CanInsert(bookings)
              /\ bookings' = bookings \cup {bk}
              /\ resp' = Resp("create", "form", 303, "none", bk.id, "none", {}, <<>>)
      \* `get_running_loop().create_task(notify(...))` inside the coroutine;
      \* a task that has no channel to notify is not tracked
      /\ tasks' = IF ~InPast(s, now) /\ ~HasConflict(exists, s, e)
                     /\ (LineOn(env) \/ MailOn(env))
                  THEN tasks \cup {bk.id} ELSE tasks
      /\ UNCHANGED <<now, wpc, wreq, wres, env, outbox>>

\* POST /api/bookings
api_create_booking(name, d, t, minutes, memo) ==
  LET s == dt_merge(d, t)
      e == timedelta_add(s, minutes)
      exists == QueryActive(bookings)
      bk == Booking(NextId(bookings), name, s, e, minutes, MemoOr(memo), now)
  IN  /\ IF InPast(s, now)
         THEN /\ resp' = Resp("create", "api", 400, "past", 0, "none", {}, <<>>)
              /\ UNCHANGED <<bookings, outbox>>
         ELSE IF HasConflict(exists, s, e)
         THEN /\ resp' = Resp("create", "api", 409, "conflict", 0, "none", {}, <<>>)
              /\ UNCHANGED <<bookings, outbox>>
         ELSE /\ CanInsert(bookings)
              /\ bookings' = bookings \cup {bk}
              \* a pool thread has no running loop: `asyncio.run(notify(...))`
              \* runs the notification to its end before the return
              /\ \E lineOut \in Attempt(LineOn(env)),
                    mailOut \in Attempt(MailOn(env)) :
                   LET r == notify(env, lineOut, mailOut)
                   IN  /\ outbox' = outbox \cup Msgs(bk.id, r.sent)
                       /\ resp' = IF r.raised
                                  THEN Resp("create", "api", 500, "internal", 0,
                                            "none", {}, <<>>)
                                  ELSE Resp("create", "api", 201, "none", bk.id,
                                            "none", {}, <<>>)
      /\ UNCHANGED <<now, wpc, wreq, wres, env, tasks>>

\* the event loop runs a notify task the form handler left on it; what the
\* task returns or raises reaches no handler
notify_task(id) ==
  /\ id \in tasks
  /\ \E lineOut \in Attempt(LineOn(env)),
        mailOut \in Attempt(MailOn(env)) :
       outbox' = outbox \cup Msgs(id, notify(env, lineOut, mailOut).sent)
  /\ tasks' = tasks \ {id}
  /\ UNCHANGED <<bookings, now, resp, wpc, wreq, wres, env>>

\* ------------------------------------------------------ status transitions
\* `b.fee_jpy or 1000`: None and 0 are both falsy
FeeOr(fee, default) ==
  IF fee = NULL \/ fee = Some(0) THEN Some(default) ELSE fee

\* variant: done sets the status and leaves the fee as it is
ApplyDoneNoFee(b) == [b EXCEPT !.status = "Done"]

\* `b.status = "Done"; b.fee_jpy = b.fee_jpy or 1000`
ApplyDone(b) ==
  [b EXCEPT !.status = "Done", !.fee_jpy = FeeOr(b.fee_jpy, FixedFee)]

\* variant: cancel also drops the fee
ApplyCancelClearFee(b) == [b EXCEPT !.status = "Cancel", !.fee_jpy = NULL]

\* `b.status = "Cancel"`
ApplyCancel(b) == [b EXCEPT !.status = "Cancel"]

\* variant: the fee survives the return to Booked
ApplyBookKeepFee(b) == [b EXCEPT !.status = "Booked"]

\* `b.status = "Booked"; b.fee_jpy = None`
ApplyBook(b) == [b EXCEPT !.status = "Booked", !.fee_jpy = NULL]

\* the row after the if/elif chain of the form route (no else branch)
FormTransition(b, action) ==
  IF action = "done" THEN ApplyDone(b)
  ELSE IF action = "cancel" THEN ApplyCancel(b)
  ELSE IF action = "book" THEN ApplyBook(b)
  ELSE b

\* variant: a cancelled booking is terminal
ApiTransitionCancelFinal(b, action) ==
  IF b.status = "Cancel" THEN b
  ELSE IF action = "done" THEN ApplyDone(b)
  ELSE IF action = "cancel" THEN ApplyCancel(b)
  ELSE ApplyBook(b)

\* the row after the if/elif chain of the API route, for a recognised action
ApiTransition(b, action) ==
  IF action = "done" THEN ApplyDone(b)
  ELSE IF action = "cancel" THEN ApplyCancel(b)
  ELSE ApplyBook(b)

Recognised(action) == action \in {"done", "cancel", "book"}

\* POST /booking/{bid}/status
update_status(bid, action) ==
  LET found == Get(bookings, bid)
  IN  /\ IF found = {}
         THEN /\ resp' = Resp("status", "form", 303, "none", 0, "none", {}, <<>>)
              /\ UNCHANGED bookings
         ELSE LET b == CHOOSE x \in found : TRUE
              IN  /\ resp' = IF Recognised(action)
                             THEN Resp("status", "form", 303, "none", bid, action, {b}, <<>>)
                             ELSE Resp("status", "form", 303, "none", 0, "none", {}, <<>>)
                  /\ bookings' = (bookings \ {b}) \cup {FormTransition(b, action)}
      /\ UNCHANGED <<now, wpc, wreq, wres, nvars>>

\* POST /api/bookings/{bid}/status
api_update_status(bid, action) ==
  LET found == Get(bookings, bid)
  IN  /\ IF found = {}
         THEN /\ resp' = Resp("status", "api", 404, "not_found", 0, "none", {}, <<>>)
              /\ UNCHANGED bookings
         ELSE LET b == CHOOSE x \in found : TRUE
              IN  IF Recognised(action)
                  THEN /\ resp' = Resp("status", "api", 200, "none", bid, action, {b}, <<>>)
                       /\ bookings' = (bookings \ {b}) \cup {ApiTransition(b, action)}
                  ELSE /\ resp' = Resp("status", "api", 400, "invalid_action", 0, "none", {}, <<>>)
                       /\ UNCHANGED bookings
      /\ UNCHANGED <<now, wpc, wreq, wres, nvars>>

\* ---------------------------------------------------------------- delete
\* `db.delete(b)`
DeleteRow(rows, b) == rows \ {b}

\* DELETE /api/bookings/{bid}
api_delete_booking(bid) ==
  LET found == Get(bookings, bid)
  IN  /\ IF found = {}
         THEN /\ resp' = Resp("delete", "api", 404, "not_found", 0, "none", {}, <<>>)
              /\ UNCHANGED bookings
         ELSE LET b == CHOOSE x \in found : TRUE
              IN  /\ bookings' = DeleteRow(bookings, b)
                  /\ resp' = Resp("delete", "api", 204, "none", bid, "none", {}, <<>>)
      /\ UNCHANGED <<now, wpc, wreq, wres, nvars>>

\* ------------------------------------------------------------------ list
\* rows in `order_by(Booking.start_at.asc())`; rows with equal start_at are
\* taken in rowid order
RECURSIVE OrderByStart(_)
OrderByStart(rows) ==
  IF rows = {} THEN <<>>
  ELSE LET first == CHOOSE b \in rows : \A c \in rows :
                      \/ b.start_at < c.start_at
                      \/ (b.start_at = c.start_at /\ b.id <= c.id)
       IN  <<first>> \o OrderByStart(rows \ {first})

\* `.limit(limit).offset(offset)`
LimitOffset(seq, limit, offset) ==
  SubSeq(seq, offset + 1,
         IF offset + limit < Len(seq) THEN offset + limit ELSE Len(seq))

\* GET /api/bookings; fr, to and status_eq are NULL or Some(value), and a
\* filter is applied only when its parameter is given
api_list_bookings(rows, fr, to, status_eq, limit, offset) ==
  LET q1 == IF fr # NULL THEN {b \in rows : b.start_at >= fr[1]} ELSE rows
      q2 == IF to # NULL THEN {b \in q1 : b.start_at <= to[1]} ELSE q1
      q3 == IF status_eq # NULL THEN {b \in q2 : b.status = status_eq[1]} ELSE q2
  IN  LimitOffset(OrderByStart(q3), limit, offset)

DefaultLimit == 50

\* ids returned by GET /api/bookings with its default parameters
ListedIds(rows) ==
  LET out == api_list_bookings(rows, NULL, NULL, NULL, DefaultLimit, 0)
  IN  {out[i].id : i \in 1..Len(out)}

\* ----------------------------------------------------------------- stats
MonthLen == DayLen * DaysPerMonth

\* `datetime(year, month, 1, 0, 0, tzinfo=JST)`
datetime(year, month) ==
  Aware(((year - BaseYear) * MonthsPerYear + (month - FirstMonth)) * MonthLen)

Seconds(dt) == dt.wall * SecondsPerMinute

\* `start`, in seconds
MonthStart(year, month) == Seconds(datetime(year, month))

\* `end`: one second before the first day of the following month
MonthEnd(year, month) ==
  IF month = MonthsPerYear
  THEN Seconds(datetime(year + 1, 1)) - 1
  ELSE Seconds(datetime(year, month + 1)) - 1

\* variant: every booking that is not cancelled is counted
QueryActiveInMonth(rows, year, month) ==
  {b \in rows : /\ b.status # "Cancel"
                /\ Seconds(Naive(b.start_at)) >= MonthStart(year, month)
                /\ Seconds(Naive(b.start_at)) <= MonthEnd(year, month)}

\* the three filters of the aggregate query
QueryDoneInMonth(rows, year, month) ==
  {b \in rows : /\ b.status = "Done"
                /\ Seconds(Naive(b.start_at)) >= MonthStart(year, month)
                /\ Seconds(Naive(b.start_at)) <= MonthEnd(year, month)}

\* SQL SUM over a column: NULL values are skipped, and the sum of no value
\* is NULL
RECURSIVE SqlSum(_)
SqlSum(rows) ==
  IF rows = {} THEN NULL
  ELSE LET b == CHOOSE x \in rows : TRUE
           rest == SqlSum(rows \ {b})
       IN  IF b.fee_jpy = NULL THEN rest
           ELSE IF rest = NULL THEN b.fee_jpy
           ELSE Some(b.fee_jpy[1] + rest[1])

\* `func.coalesce(x, 0)`
Coalesce(x, default) == IF x = NULL THEN default ELSE x[1]

Years == {BaseYear, BaseYear + 1}
Months == {MonthsPerYear, 1}

\* GET /api/stats/monthly
api_stats_monthly(year, month) ==
  LET rows == QueryDoneInMonth(bookings, year, month)
  IN  /\ resp' = Resp("stats", "api", 200, "none", 0, "none", {},
                      <<year, month, Cardinality(rows), Coalesce(SqlSum(rows), 0)>>)
      /\ UNCHANGED <<bookings, now, wpc, wreq, wres, nvars>>

\* ------------------------------------------- concurrent creation requests
\* A request handled by worker w runs in three steps: the past check, the
\* scan of the active bookings, and the insert with its commit.  API
\* handlers run on pool threads; the form handler is a coroutine without an
\* await between its scan and its commit, so the event loop runs at most
\* one form handler at a time.
FormBusy(w) ==
  \E v \in Workers \ {w} : wpc[v] # "idle" /\ wreq[v].route = "form"

create_check(w, route, name, d, t, minutes, memo) ==
  LET s == dt_merge(d, t)
  IN  /\ wpc[w] = "idle"
      /\ route = "form" => ~FormBusy(w)
      /\ wreq' = [wreq EXCEPT ![w] =
                     [route |-> route, name |-> name, s |-> s.wall,
                      minutes |-> minutes,
                      memo |-> IF route = "api" THEN MemoOr(memo) ELSE memo]]
      /\ IF InPast(s, now)
         THEN /\ wres' = [wres EXCEPT ![w] = "past"]
              /\ resp' = Resp("create", route, 400, "past", 0, "none", {}, <<>>)
              /\ UNCHANGED wpc
         ELSE /\ wres' = [wres EXCEPT ![w] = "none"]
              /\ wpc' = [wpc EXCEPT ![w] = "scan"]
              /\ UNCHANGED resp
      /\ UNCHANGED <<bookings, now, nvars>>

create_scan(w) ==
  LET s == Aware(wreq[w].s)
      e == timedelta_add(s, wreq[w].minutes)
      exists == QueryActive(bookings)
  IN  /\ wpc[w] = "scan"
      /\ IF HasConflict(exists, s, e)
         THEN /\ wres' = [wres EXCEPT ![w] = "conflict"]
              /\ wpc' = [wpc EXCEPT ![w] = "idle"]
              /\ resp' = Resp("create", wreq[w].route,
                              IF wreq[w].route = "api" THEN 409 ELSE 200,
                              "conflict", 0, "none", {}, <<>>)
         ELSE /\ wpc' = [wpc EXCEPT ![w] = "insert"]
              /\ UNCHANGED <<wres, resp>>
      /\ UNCHANGED <<bookings, now, wreq, nvars>>

create_insert(w) ==
  LET s == Aware(wreq[w].s)
      e == timedelta_add(s, wreq[w].minutes)
      bk == Booking(NextId(bookings), wreq[w].name, s, e, wreq[w].minutes,
                    wreq[w].memo, now)
  IN  /\ wpc[w] = "insert"
      /\ CanInsert(bookings)
      /\ bookings' = bookings \cup {bk}
      /\ wres' = [wres EXCEPT ![w] = "created"]
      /\ wpc' = [wpc EXCEPT ![w] = "idle"]
      /\ IF wreq[w].route = "api"
         THEN /\ \E lineOut \in Attempt(LineOn(env)),
                    mailOut \in Attempt(MailOn(env)) :
                   LET r == notify(env, lineOut, mailOut)
                   IN  /\ outbox' = outbox \cup Msgs(bk.id, r.sent)
                       /\ resp' = IF r.raised
                                  THEN Resp("create", "api", 500, "internal", 0,
                                            "none", {}, <<>>)
                                  ELSE Resp("create", "api", 201, "none", bk.id,
                                            "none", {}, <<>>)
              /\ UNCHANGED tasks
         ELSE /\ resp' = Resp("create", "form", 303, "none", bk.id, "none",
                              {}, <<>>)
              /\ tasks' = IF LineOn(env) \/ MailOn(env)
                          THEN tasks \cup {bk.id} ELSE tasks
              /\ UNCHANGED outbox
      /\ UNCHANGED <<now, wreq, env>>

ConcNext ==
  \/ Tick
  \/ \E w \in Workers, r \in Routes, n \in Names, d \in Days,
        t \in TimesOfDay, m \in MinutesInputs, memo \in MemoInputs :
       create_check(w, r, n, d, t, m, memo)
  \/ \E w \in Workers : create_scan(w)
  \/ \E w \in Workers : create_insert(w)

ConcSpec == Init /\ [][ConcNext]_vars

\* ------------------------------------------------ a store that has rows
StoredStatuses == {"Booked", "Done", "Cancel"}
StoredFees == {NULL, Some(0), Some(1500)}

StoredRow(id, s, status, fee) ==
  [id |-> id, name |-> "ann", start_at |-> s, end_at |-> s + 1,
   minutes |-> 1, status |-> status, fee_jpy |-> fee,
   memo |-> "note", created_at |-> 0]

StoredTimes == {dt_merge(d, t).wall : d \in Days, t \in TimesOfDay}

\* the table holds up to MaxId rows with any status and any fee
StoredInit ==
  /\ \E n \in 0..MaxId :
       \E st \in [1..n -> StoredTimes],
          ss \in [1..n -> StoredStatuses],
          fe \in [1..n -> StoredFees] :
         bookings = {StoredRow(i, st[i], ss[i], fe[i]) : i \in 1..n}
  /\ now = 0
  /\ resp = NoResp
  /\ wpc = Idle
  /\ wreq = [w \in Workers |-> NoReq]
  /\ wres = [w \in Workers |-> "none"]
  /\ env = {}
  /\ tasks = {}
  /\ outbox = {}

\* ------------------------------------------ creation on a stored table
\* creates arrive, as the clock advances, at a table that already holds
\* rows of any status
TableNext ==
  \/ Tick
  \/ \E n \in Names, d \in Days, t \in TimesOfDay, m \in MinutesInputs,
        memo \in MemoInputs : create_booking(n, d, t, m, memo)
  \/ \E n \in Names, d \in Days, t \in TimesOfDay, m \in MinutesInputs,
        memo \in MemoInputs : api_create_booking(n, d, t, m, memo)

TableSpec == StoredInit /\ [][TableNext]_vars

\* --------------------------------- status requests on a contested slot
\* the table holds up to MaxId rows for one and the same slot, with any
\* status and any fee
SlotInit ==
  /\ \E n \in 0..MaxId :
       \E ss \in [1..n -> StoredStatuses], fe \in [1..n -> StoredFees] :
         bookings = {StoredRow(i, dt_merge(0, 0).wall, ss[i], fe[i]) : i \in 1..n}
  /\ now = 0
  /\ resp = NoResp
  /\ wpc = Idle
  /\ wreq = [w \in Workers |-> NoReq]
  /\ wres = [w \in Workers |-> "none"]
  /\ env = {}
  /\ tasks = {}
  /\ outbox = {}

StatusNext ==
  \/ \E bid \in 1..MaxId, a \in Actions : update_status(bid, a)
  \/ \E bid \in 1..MaxId, a \in Actions : api_update_status(bid, a)

StatusSpec == SlotInit /\ [][StatusNext]_vars

\* ------------------------------------------- creation with notification
\* the process starts with any of the environment variables set
NotifyInit ==
  /\ bookings = {}
  /\ now = 0
  /\ resp = NoResp
  /\ wpc = Idle
  /\ wreq = [w \in Workers |-> NoReq]
  /\ wres = [w \in Workers |-> "none"]
  /\ env \in SUBSET EnvNames
  /\ tasks = {}
  /\ outbox = {}

\* requests for slots of positive length, so that creates also conflict
NotifyNext ==
  \/ Tick
  \/ \E n \in Names, d \in Days, t \in TimesOfDay,
        m \in {x \in MinutesInputs : x > 0}, memo \in MemoInputs :
       create_booking(n, d, t, m, memo)
  \/ \E n \in Names, d \in Days, t \in TimesOfDay,
        m \in {x \in MinutesInputs : x > 0}, memo \in MemoInputs :
       api_create_booking(n, d, t, m, memo)
  \/ \E id \in 1..MaxId : notify_task(id)

NotifySpec == NotifyInit /\ [][NotifyNext]_vars

StoredNext ==
  \/ \E bid \in 1..MaxId, a \in Actions : update_status(bid, a)
  \/ \E bid \in 1..MaxId, a \in Actions : api_update_status(bid, a)
  \/ \E y \in Years, m \in Months : api_stats_monthly(y, m)

StoredSpec == StoredInit /\ [][StoredNext]_vars

Next ==
  \/ Tick
  \/ \E n \in Names, d \in Days, t \in TimesOfDay,
        m \in MinutesInputs, memo \in MemoInputs :
       create_booking(n, d, t, m, memo)
  \/ \E n \in Names, d \in Days, t \in TimesOfDay,
        m \in MinutesInputs, memo \in MemoInputs :
       api_create_booking(n, d, t, m, memo)
  \/ \E bid \in 1..MaxId, a \in Actions : update_status(bid, a)
  \/ \E bid \in 1..MaxId, a \in Actions : api_update_status(bid, a)
  \/ \E bid \in 1..MaxId : api_delete_booking(bid)

Spec == Init /\ [][Next]_vars

\* ================================================================ claims
Min2(a, b) == IF a <= b THEN a ELSE b

Max2(a, b) == IF a >= b THEN a ELSE b

\* the half-open intervals [s1, e1) and [s2, e2) share a point
Intersect(s1, e1, s2, e2) == Max2(s1, s2) < Min2(e1, e2)

\* the overlap rule as the specification words it
RuleOverlap(s1, e1, s2, e2) == ~(e1 <= s2 \/ e2 <= s1)

Blocked(rows, s, e) ==
  \E b \in rows : b.status # "Cancel" /\ RuleOverlap(b.start_at, b.end_at, s, e)

CreateStep(n, d, t, m, memo) ==
  create_booking(n, d, t, m, memo) \/ api_create_booking(n, d, t, m, memo)

StatusStep(bid, a) == update_status(bid, a) \/ api_update_status(bid, a)

\* C1: in every reachable state no two distinct bookings that are not
\* cancelled have intersecting half-open intervals [start_at, end_at).
C1_NoActiveOverlap ==
  \A a, b \in bookings :
    (a.id # b.id /\ a.status # "Cancel" /\ b.status # "Cancel")
      => ~Intersect(a.start_at, a.end_at, b.start_at, b.end_at)

\* C2: two creation requests for the identical interval never both end with
\* an inserted booking, however their check, scan and insert steps
\* interleave.
C2_ExactlyOneSucceeds ==
  \A v, w \in Workers :
    (v # w /\ wreq[v].s = wreq[w].s /\ wreq[v].minutes = wreq[w].minutes
       /\ wreq[v].minutes > 0)
      => ~(wres[v] = "created" /\ wres[w] = "created")

\* C3: a creation with a positive duration and a start that is not in the
\* past succeeds exactly when no booking that is not cancelled overlaps the
\* candidate under the rule NOT(e1 <= s2 OR e2 <= s1); a blocked candidate
\* gets the conflict error and leaves the store as it was, and a candidate
\* that is not blocked (it only abuts active bookings, or only overlaps
\* cancelled ones) is inserted as a Booked row.  (Stated contrapositively:
\* no creation step for such an input ends any other way.)
C3_CreateIffNoOverlap ==
  [][resp'.op = "create" =>
       \A n \in Names, d \in Days, t \in TimesOfDay,
          m \in {x \in MinutesInputs : x > 0}, memo \in MemoInputs :
         LET s == d * DayLen + t
             e == s + m
             asClaimed ==
               IF Blocked(bookings, s, e)
               THEN resp'.error = "conflict" /\ bookings' = bookings
               ELSE /\ resp'.error = "none"
                    /\ bookings \subseteq bookings'
                    /\ Cardinality(bookings') = Cardinality(bookings) + 1
                    /\ \E b \in bookings' \ bookings :
                         /\ b.start_at = s /\ b.end_at = e
                         /\ b.status = "Booked" /\ b.id = resp'.id
         IN  (s >= now /\ ~asClaimed) => ~CreateStep(n, d, t, m, memo)]_vars

\* a creation has just succeeded for an interval that abuts nothing but
\* overlaps a booking that was cancelled
C3_Witness ==
  /\ resp.op = "create" /\ resp.error = "none"
  /\ \E r, c \in bookings :
       /\ r.id = resp.id /\ c.id # r.id
       /\ r.minutes > 0 /\ c.minutes > 0
       /\ c.status = "Cancel"
       /\ RuleOverlap(c.start_at, c.end_at, r.start_at, r.end_at)

\* C4: every stored booking has end_at > start_at and
\* end_at = start_at + minutes.
C4_DurationPositive ==
  \A b \in bookings :
    b.end_at > b.start_at /\ b.end_at = b.start_at + b.minutes

\* (Stated contrapositively: no creation step for such a start ends any
\* other way.)
\* C5: on the form route and on the API route alike, a creation whose start
\* is strictly before the current time is answered with the past-booking
\* error and leaves the store as it was; a creation whose start equals the
\* current time is not answered with the past-booking error.
C5_PastRejected ==
  [][resp'.op = "create" =>
       \A n \in Names, d \in Days, t \in TimesOfDay,
          m \in MinutesInputs, memo \in MemoInputs :
         LET s == d * DayLen + t
             refused == resp'.error = "past" /\ resp'.code = 400
                          /\ bookings' = bookings
         IN  /\ (s < now /\ ~refused) =>
                  (~create_booking(n, d, t, m, memo)
                     /\ ~api_create_booking(n, d, t, m, memo))
             /\ (s = now /\ resp'.error = "past") =>
                  ~CreateStep(n, d, t, m, memo)]_vars

\* the form route has just refused a start in the past while the store
\* holds a booking
C5_Witness ==
  /\ resp.op = "create" /\ resp.route = "form"
  /\ resp.error = "past" /\ resp.code = 400
  /\ bookings # {}

C7_BookClearsFee ==
  [][\A bid \in 1..MaxId :
       (resp'.op = "status" /\ Get(bookings, bid) # {} /\ StatusStep(bid, "book")) =>
         /\ resp'.error = "none"
         /\ \A b2 \in Get(bookings', bid) :
              b2.status = "Booked" /\ b2.fee_jpy = NULL
         /\ Get(bookings', bid) # {}]_vars

\* `book` has just been applied to a Done booking that carried a fee
C7_Witness ==
  /\ resp.op = "status" /\ resp.action = "book"
  /\ \E b \in resp.before :
       b.status = "Done" /\ b.fee_jpy # NULL /\ b.fee_jpy # Some(0)
  /\ \E b2 \in Get(bookings, resp.id) :
       b2.status = "Booked" /\ b2.fee_jpy = NULL

\* C8: on both routes a status change for an id that is not stored is
\* answered with the not-found error, one with an unrecognised action with
\* the invalid-action error, and neither changes a stored booking.
C8_StatusErrors ==
  [][\A bid \in 1..MaxId, a \in Actions :
       (resp'.op = "status" /\ StatusStep(bid, a)) =>
         /\ Get(bookings, bid) = {} =>
              (resp'.error = "not_found" /\ bookings' = bookings)
         /\ (Get(bookings, bid) # {} /\ ~Recognised(a)) =>
              (resp'.error = "invalid_action" /\ bookings' = bookings)]_vars

\* the calendar month (year, month) that minute t lies in
CalendarMonthOf(t) ==
  LET idx == (t \div MonthLen) + (FirstMonth - 1)
  IN  <<BaseYear + (idx \div MonthsPerYear), (idx % MonthsPerYear) + 1>>

DoneIn(rows, year, month) ==
  {b \in rows : b.status = "Done" /\ CalendarMonthOf(b.start_at) = <<year, month>>}

RECURSIVE FeeTotal(_)
FeeTotal(rows) ==
  IF rows = {} THEN 0
  ELSE LET b == CHOOSE x \in rows : TRUE
       IN  (IF b.fee_jpy = NULL THEN 0 ELSE b.fee_jpy[1]) + FeeTotal(rows \ {b})

\* C9: the monthly statistics of (year, month) are the number of Done
\* bookings that start inside that calendar month and the sum of their
\* fees, an unset fee counting as 0; the call leaves the store as it was.
C9_MonthlyStats ==
  [][resp'.op = "stats" =>
       /\ resp'.out[3] = Cardinality(DoneIn(bookings, resp'.out[1], resp'.out[2]))
       /\ resp'.out[4] = FeeTotal(DoneIn(bookings, resp'.out[1], resp'.out[2]))
       /\ bookings' = bookings]_vars

\* the statistics have just been computed for a month with two Done
\* bookings, one of them without a fee
C9_Witness ==
  /\ resp.op = "stats" /\ resp.out[3] = 2 /\ resp.out[4] = 1500
  /\ \E a, b \in bookings :
       /\ a.status = "Done" /\ b.status = "Done"
       /\ a.fee_jpy = NULL /\ b.fee_jpy = Some(1500)
       /\ CalendarMonthOf(a.start_at) = <<resp.out[1], resp.out[2]>>
       /\ CalendarMonthOf(b.start_at) = <<resp.out[1], resp.out[2]>>

\* C10: a delete of an id that is not stored is answered with the not-found
\* error and changes nothing; a delete of a stored id removes exactly that
\* booking, and the id is not listed again by the operation that follows.
C10_DeletePermanent ==
  [][/\ \A bid \in 1..MaxId :
          (resp'.op = "delete" /\ api_delete_booking(bid)) =>
            IF Get(bookings, bid) = {}
            THEN resp'.error = "not_found" /\ bookings' = bookings
            ELSE /\ resp'.code = 204
                 /\ bookings' = bookings \ Get(bookings, bid)
                 /\ bid \notin ListedIds(bookings')
     /\ (resp.op = "delete" /\ resp.code = 204) =>
          resp.id \notin ListedIds(bookings')]_vars

\* C11: notification is fire-and-forget.  Whatever channels are configured
\* and however the transports behave, a create answers and persists as if
\* there were no notification (past: refused; conflict: refused; otherwise
\* the row is inserted and the success answer returned, never an internal
\* error); a refused create dispatches nothing; and every notification
\* scheduled or delivered in a step is about a booking that is committed
\* in the state after the step.  A notify task changes neither the store
\* nor any answer.
C11_FireAndForget ==
  [][/\ resp'.code # 500
     /\ \A id \in tasks' \ tasks : Get(bookings', id) # {}
     /\ \A msg \in outbox' \ outbox : Get(bookings', msg[1]) # {}
     /\ (tasks' # tasks \/ outbox' # outbox) =>
          \/ bookings' = bookings /\ resp' = resp
          \/ resp'.op = "create" /\ resp'.error = "none"
               /\ bookings' # bookings
     /\ resp'.op = "create" =>
          \A n \in Names, d \in Days, t \in TimesOfDay,
             m \in {x \in MinutesInputs : x > 0}, memo \in MemoInputs,
             r \in Routes :
            LET s == d * DayLen + t
                e == s + m
                silent == tasks' = tasks /\ outbox' = outbox
                asWithout ==
                  IF s < now
                  THEN resp'.error = "past" /\ bookings' = bookings /\ silent
                  ELSE IF Blocked(bookings, s, e)
                  THEN resp'.error = "conflict" /\ bookings' = bookings
                         /\ silent
                  ELSE /\ resp'.error = "none"
                       /\ resp'.code = (IF r = "api" THEN 201 ELSE 303)
                       /\ resp'.id = NextId(bookings)
                       /\ bookings \subseteq bookings'
                       /\ \E b \in bookings' :
                            /\ bookings' = bookings \cup {b}
                            /\ b.id = resp'.id /\ b.start_at = s
                            /\ b.end_at = e /\ b.status = "Booked"
                            /\ b.fee_jpy = NULL
                       /\ (tasks' \cup {x[1] : x \in outbox'})
                            \subseteq ({y[1] : y \in outbox} \cup tasks
                                         \cup {resp'.id})
            IN  ~asWithout =>
                  ~(IF r = "api" THEN api_create_booking(n, d, t, m, memo)
                    ELSE create_booking(n, d, t, m, memo))]_vars

\* an API create answered 201 and its row is stored although LINE and mail
\* are both configured and only the mail went out
C11_Witness ==
  /\ resp.op = "create" /\ resp.route = "api" /\ resp.code = 201
  /\ LineOn(env) /\ MailOn(env)
  /\ Get(bookings, resp.id) # {}
  /\ <<resp.id, "mail">> \in outbox
  /\ <<resp.id, "line">> \notin outbox
  /\ tasks # {}

\* C14: in every state reached from the empty store through create, the
\* status routes and delete, every Booked booking has no fee, every Done
\* booking has the fee 1000, no booking has any other fee, and the booking
\* a successful create has just answered with is Booked without a fee.
C14_StatusFeeCoupled ==
  /\ \A b \in bookings :
       /\ b.status = "Booked" => b.fee_jpy = NULL
       /\ b.status = "Done" => b.fee_jpy = Some(FixedFee)
       /\ b.fee_jpy \in {NULL, Some(FixedFee)}
  /\ (resp.op = "create" /\ resp.error = "none") =>
       /\ Get(bookings, resp.id) # {}
       /\ \A b \in Get(bookings, resp.id) :
            b.status = "Booked" /\ b.fee_jpy = NULL

\* a Done booking with fee 1000 has just been returned to Booked and lost
\* its fee, next to a cancelled booking that keeps the fee 1000
C14_Witness ==
  /\ resp.op = "status" /\ resp.action = "book"
  /\ \E old \in resp.before :
       old.status = "Done" /\ old.fee_jpy = Some(FixedFee)
  /\ \E b \in Get(bookings, resp.id) :
       b.status = "Booked" /\ b.fee_jpy = NULL
  /\ \E c \in bookings :
       c.id # resp.id /\ c.status = "Cancel" /\ c.fee_jpy = Some(FixedFee)

\* the status an action sets
TargetStatus(a) ==
  IF a = "book" THEN "Booked" ELSE IF a = "done" THEN "Done" ELSE "Cancel"

\* C12: every status action is an unconditional set.  Every stored status
\* is Booked, Done or Cancel, and on either route each of book, done and
\* cancel, applied to an existing booking whatever its status, succeeds,
\* leaves the booking with the action's status and keeps the set of ids;
\* book is not refused for a cancelled booking that overlaps an active one.
C12_UnconditionalSet ==
  [][/\ \A b \in bookings' : b.status \in {"Booked", "Done", "Cancel"}
     /\ resp'.op = "status" =>
          \A bid \in 1..MaxId, a \in {"book", "done", "cancel"} :
            (Get(bookings, bid) # {} /\ StatusStep(bid, a)) =>
              /\ resp'.error = "none"
              /\ resp'.code \in {200, 303}
              /\ {b.id : b \in bookings'} = {b.id : b \in bookings}
              /\ \A b2 \in Get(bookings', bid) : b2.status = TargetStatus(a)]_vars

\* book has just been applied through the API to a cancelled booking whose
\* interval overlaps a booking that is active, and both are now Booked
C12_Witness ==
  /\ resp.op = "status" /\ resp.route = "api" /\ resp.action = "book"
  /\ resp.code = 200
  /\ \E old \in resp.before : old.status = "Cancel"
  /\ \E b \in Get(bookings, resp.id), c \in bookings :
       /\ c.id # b.id /\ b.status = "Booked" /\ c.status = "Booked"
       /\ b.minutes > 0 /\ c.minutes > 0
       /\ RuleOverlap(b.start_at, b.end_at, c.start_at, c.end_at)

\* C13: a status request on either route, with any action and any id,
\* changes nothing but the status and the fee of the booking it names:
\* that booking keeps its id, name, start_at, end_at, minutes, memo and
\* created_at, cancel keeps its fee as well, every other booking is the
\* same row as before, and no row appears or disappears.
C13_StatusFrame ==
  [][resp'.op = "status" =>
       \A bid \in 1..MaxId, a \in Actions :
         StatusStep(bid, a) =>
           /\ {o \in bookings : o.id # bid} = {o \in bookings' : o.id # bid}
           /\ Cardinality(Get(bookings', bid)) = Cardinality(Get(bookings, bid))
           /\ \A b \in Get(bookings, bid) :
                \A b2 \in Get(bookings', bid) :
                  /\ b2 = [b EXCEPT !.status = b2.status,
                                    !.fee_jpy = b2.fee_jpy]
                  /\ a = "cancel" => b2.fee_jpy = b.fee_jpy]_vars

\* cancel has just been applied to a Done booking that carries a fee; the
\* booking is now Cancel with the same fee, and another booking is stored
C13_Witness ==
  /\ resp.op = "status" /\ resp.action = "cancel"
  /\ \E old \in resp.before, b \in Get(bookings, resp.id) :
       /\ old.status = "Done" /\ old.fee_jpy = Some(1500)
       /\ b.status = "Cancel" /\ b.fee_jpy = old.fee_jpy
  /\ \E c \in bookings : c.id # resp.id /\ c.status # "Cancel"
====
